---- MODULE Spec2Model ----
(***************************************************************************)
(* A model of MantaDirWatcher (lib/manta-dir-watcher.js): a readable       *)
(* stream that polls a Manta directory, diffs each listing against the     *)
(* previous one (or, on the first poll, against a local sync directory),   *)
(* optionally syncs the changes to that directory and pushes one group of  *)
(* events per poll to its consumer.                                        *)
(*                                                                         *)
(* One action per handler or pipeline stage.  The stages of one poll are   *)
(* the functions handed to vasync.pipeline in _poll(); each stage ends in  *)
(* an asynchronous callback, so other handlers (the stream's _read, a      *)
(* timer, poke(), close(), a stage of another poll) may run between two    *)
(* stages of one poll but never inside one.  A stage whose first test      *)
(* calls next() at once is no step of its own: the poll goes on to the     *)
(* stage after it.                                                         *)
(***************************************************************************)
EXTENDS Integers, Sequences, FiniteSets, TLC

\* ---- bounds of the model

\* Polls started over one behaviour.
MaxPolls == 2
\* Last clock tick.
MaxTime == 3
\* Calls of poke() over one behaviour.
MaxPokes == 1
\* Entry names of the watched directory, 1..MaxNames.
MaxNames == 2

VARIABLES
    opts,           \* the constructor's options (never change)
    env,            \* the value sets the collaborators draw their answers from
    limit,          \* the bounds of this behaviour: polls, pokes, time
    _state,         \* committed snapshot: None, or Some(dirents in insertion order)
    _pollTimeout,   \* handle of the last timer set and not cleared; 0 is null
    _lastPollTime,  \* time the last successful poll completed; 0 is null
    _buffer,        \* groups held back while paused
    _paused,
    now,            \* Date.now()
    timers,         \* armed timers: records [id, at]
    immediates,     \* setImmediate callbacks that will call _poll()
    ended,          \* push(null) was called on the stream
    polls,          \* poll id -> context of a poll in flight
    nPolls,         \* polls started so far
    nPokes,         \* calls of poke() so far
    lastPoll,       \* how the poll that finished last ended
    produced,       \* every group made by pushEvents, in order
    delivered,      \* every group the stream accepted from push(), in order
    errors,         \* 'error' events emitted: records [poll, kind]
    fs              \* the local file system under syncDir

vars == <<opts, env, limit, _state, _pollTimeout, _lastPollTime, _buffer, _paused,
          now, timers, immediates, ended, polls, nPolls, nPokes, lastPoll,
          produced, delivered, errors, fs>>

\* ---- values

None == <<>>
Some(x) == <<x>>

Names == 1..MaxNames

\* Every sequence of distinct elements of S that has all of S.
Perms(S) ==
    {s \in [1..Cardinality(S) -> S] : \A i, j \in 1..Cardinality(S) : s[i] = s[j] => i = j}

SeqToSet(s) == {s[i] : i \in 1..Len(s)}

\* The subsequence of s of its elements in the set keep.
RECURSIVE SelectSeqBy(_, _)
SelectSeqBy(s, keep) ==
    IF s = <<>> THEN <<>>
    ELSE IF Head(s) \in keep THEN <<Head(s)>> \o SelectSeqBy(Tail(s), keep)
    ELSE SelectSeqBy(Tail(s), keep)

\* A Manta dirent: what client.ls() reports of an entry (name, type, etag,
\* mtime) and what client.info() reports of it (size, md5).
Dirents(e) ==
    {[name |-> n, type |-> a.type, etag |-> a.etag, mtime |-> a.mtime,
      size |-> a.size, md5 |-> a.md5] : n \in e.names, a \in e.attrs}

\* The orders in which a listing can report the names S.
Orders(e, S) ==
    IF e.sorted
    THEN {s \in Perms(S) : \A i, j \in 1..Cardinality(S) : i < j => s[i] < s[j]}
    ELSE Perms(S)

\* What one listing can report: dirents of distinct names.
Listings(e) ==
    UNION {{[i \in 1..Len(order) |-> d[order[i]]] :
                order \in Orders(e, S),
                d \in {a \in [S -> Dirents(e)] : \A n \in S : a[n].name = n}}
           : S \in SUBSET e.names}

\* Lookup in a name-keyed object kept as its dirents in insertion order.
HasName(ds, n) == \E i \in 1..Len(ds) : ds[i].name = n
ByName(ds, n) == ds[CHOOSE i \in 1..Len(ds) : ds[i].name = n]
NamesOf(ds) == {ds[i].name : i \in 1..Len(ds)}

\* ---- pure functions of the poll pipeline

\* handleDirent's two filter tests: the dirent is kept.
handleDirent(d) ==
    /\ (opts.filter.type = "" \/ d.type = opts.filter.type)
    /\ (opts.filter.name = None \/ d.name \in opts.filter.name[1])

\* A listDir that keeps every dirent of the listing.
keptDirents_all(listing) == listing

\* listDir's arg.dirents for a listing: the dirents handleDirent keeps.
RECURSIVE keptDirents(_)
keptDirents(listing) ==
    IF listing = <<>> THEN <<>>
    ELSE IF handleDirent(Head(listing))
         THEN <<Head(listing)>> \o keptDirents(Tail(listing))
         ELSE keptDirents(Tail(listing))

\* A comparison that looks at mtime too.
diffDirents_withMtime(a, b) == {attr \in {"type", "etag", "mtime"} : a[attr] # b[attr]}

\* The attributes in which two dirents differ; empty is the code's null.
diffDirents(a, b) == {attr \in {"type", "etag"} : a[attr] # b[attr]}

\* A first loop that collects the creates and updates in reverse order.
RECURSIVE createsAndUpdates_reversed(_, _)
createsAndUpdates_reversed(old, ds) ==
    IF ds = <<>> THEN <<>>
    ELSE LET dirent == Head(ds)
             rest == createsAndUpdates_reversed(old, Tail(ds))
         IN  IF ~HasName(old, dirent.name)
             THEN rest \o <<[action |-> "create", dirent |-> dirent]>>
             ELSE IF diffDirents(ByName(old, dirent.name), dirent) # {}
             THEN rest \o <<[action |-> "update", dirent |-> dirent,
                             oldDirent |-> ByName(old, dirent.name)]>>
             ELSE rest

\* changesFromDirents, first loop of the oldState branch: creates and updates
\* in listing order.
RECURSIVE createsAndUpdates(_, _)
createsAndUpdates(old, ds) ==
    IF ds = <<>> THEN <<>>
    ELSE LET dirent == Head(ds)
             rest == createsAndUpdates(old, Tail(ds))
         IN  IF ~HasName(old, dirent.name)
             THEN <<[action |-> "create", dirent |-> dirent]>> \o rest
             ELSE IF diffDirents(ByName(old, dirent.name), dirent) # {}
             THEN <<[action |-> "update", dirent |-> dirent,
                     oldDirent |-> ByName(old, dirent.name)]>> \o rest
             ELSE rest

\* changesFromDirents, second loop of the oldState branch: deletes in the
\* order of Object.keys(oldState).
RECURSIVE deletesFromOldState(_, _)
deletesFromOldState(old, ds) ==
    IF old = <<>> THEN <<>>
    ELSE LET rest == deletesFromOldState(Tail(old), ds)
         IN  IF ~HasName(ds, Head(old).name)
             THEN <<[action |-> "delete", oldDirent |-> Head(old)]>> \o rest
             ELSE rest

changesFromOldState(old, ds) ==
    createsAndUpdates(old, ds) \o deletesFromOldState(old, ds)

\* pushEvents: the event of one change.
eventFromChange(ch) ==
    LET aDirent == IF "dirent" \in DOMAIN ch THEN ch.dirent
                   ELSE IF "oldDirent" \in DOMAIN ch THEN ch.oldDirent
                   ELSE ch.oldLocalDirent
    IN  IF ch.action = "delete"
        THEN [action |-> ch.action, name |-> aDirent.name]
        ELSE [action |-> ch.action, name |-> aDirent.name, mtime |-> ch.dirent.mtime]

eventsFromChanges(changes) == [i \in 1..Len(changes) |-> eventFromChange(changes[i])]

\* ---- timers and the stream

\* clearTimeout(h): a timer that fired or was cleared before is left alone.
clearTimeout(ts, h) == {t \in ts : t.id # h}

\* A handle no armed timer and no recorded handle uses; of two armed timers
\* the one armed later has the larger handle.
newHandle ==
    LET used == {_pollTimeout} \cup {t.id : t \in timers}
    IN  1 + (CHOOSE h \in used : \A u \in used : u <= h)

\* setTimeout(function () { self._poll(); }, delay)
setTimeout(ts, delay) == ts \cup {[id |-> newHandle, at |-> now + delay]}

\* A context whose oldState is an empty snapshot when none is committed.
newContext_emptySnapshot ==
    [pc |-> "listDir", ls |-> "", listing |-> <<>>,
     oldState |-> IF _state = None THEN Some(<<>>) ELSE _state,
     dirents |-> <<>>, localDirents |-> <<>>, changes |-> <<>>,
     possibleUpdates |-> None, touched |-> {}]

\* The context _poll() builds for the pipeline.
newContext ==
    [pc |-> "listDir", ls |-> "", listing |-> <<>>, oldState |-> _state, dirents |-> <<>>,
     localDirents |-> <<>>,
     changes |-> <<>>, possibleUpdates |-> None, touched |-> {}]

\* _poll(): a new pipeline starts with the committed snapshot as oldState.
startPoll ==
    /\ nPolls < limit.polls
    /\ nPolls' = nPolls + 1
    /\ polls' = (nPolls + 1 :> newContext) @@ polls

\* finishPoll: the pipeline of poll p ends; with an error it is emitted.
finishPoll(p, err, st, touched) ==
    /\ polls' = [q \in DOMAIN polls \ {p} |-> polls[q]]
    /\ errors' = IF err = "" THEN errors ELSE errors \cup {[poll |-> p, kind |-> err]}
    /\ lastPoll' = [id |-> p, err |-> err, ls |-> polls[p].ls, listing |-> polls[p].listing,
                    oldState |-> polls[p].oldState,
                    before |-> _state, state |-> st, dirents |-> polls[p].dirents,
                    localDirents |-> polls[p].localDirents,
                    changes |-> polls[p].changes, touched |-> touched]

\* ---- handlers

\* A flush that takes the groups from the end of the buffer.
flushed_fromEnd(k) == [i \in 1..k |-> _buffer[Len(_buffer) + 1 - i]]

\* The flush loop of _resume: the first k groups, in the order of shift().
flushed(k) == SubSeq(_buffer, 1, k)

\* A flush loop that leaves nothing behind when it stops.
unshifted_dropped(k) == <<>>

\* The flush loop of _resume: the groups shift() has not taken when the loop
\* stops after k groups.
unshifted(k) == SubSeq(_buffer, k + 1, Len(_buffer))

\* _read() -> _resume(): flush the buffer, then resume polling.  The consumer
\* takes the first k buffered groups; `refused` says push() returned false
\* for the k-th.
_resume ==
    /\ ~ended
    /\ _paused
    /\ \E k \in 0..Len(_buffer), refused \in BOOLEAN :
        /\ refused => k >= 1
        /\ ~refused => k = Len(_buffer)
        /\ delivered' = delivered \o flushed(k)
        /\ _buffer' = unshifted(k)
        /\ IF refused
           THEN \* _pause()
                /\ _paused' = TRUE
                /\ timers' = clearTimeout(timers, _pollTimeout)
                /\ _pollTimeout' = 0
                /\ UNCHANGED immediates
           ELSE /\ _paused' = FALSE
                /\ IF _pollTimeout # 0
                   THEN UNCHANGED <<timers, _pollTimeout, immediates>>
                   ELSE LET timeToNextPoll ==
                                IF _lastPollTime # 0
                                THEN (_lastPollTime + opts.intervalMs) - now
                                ELSE 0
                        IN  IF timeToNextPoll <= 0
                            THEN /\ immediates' = immediates + 1
                                 /\ UNCHANGED <<timers, _pollTimeout>>
                            ELSE /\ timers' = setTimeout(timers, timeToNextPoll)
                                 /\ _pollTimeout' = newHandle
                                 /\ UNCHANGED immediates
    /\ UNCHANGED <<opts, env, limit, _state, _lastPollTime, now, ended, polls, nPolls, nPokes,
                   lastPoll, produced, errors, fs>>

\* poke(): drop the armed timer and poll on the next tick.
poke ==
    /\ nPokes < limit.pokes
    /\ nPokes' = nPokes + 1
    /\ timers' = clearTimeout(timers, _pollTimeout)
    /\ _pollTimeout' = 0
    /\ immediates' = immediates + 1
    /\ UNCHANGED <<opts, env, limit, _state, _lastPollTime, _buffer, _paused, now, ended,
                   polls, nPolls, lastPoll, produced, delivered, errors, fs>>

\* close(): drop the armed timer and end the stream.
close ==
    /\ ~ended
    /\ timers' = clearTimeout(timers, _pollTimeout)
    /\ _pollTimeout' = 0
    /\ ended' = TRUE
    /\ UNCHANGED <<opts, env, limit, _state, _lastPollTime, _buffer, _paused, now,
                   immediates, polls, nPolls, nPokes, lastPoll, produced, delivered,
                   errors, fs>>

\* A timer set by _resume or saveStateAndScheduleNextPoll fires: _poll().
\* Timers fire in the order of their deadlines, and in the order they were
\* armed when the deadlines are equal.
timerFires ==
    /\ \E t \in timers :
        /\ t.at <= now
        /\ \A u \in timers : IF u.at = t.at THEN u.id >= t.id ELSE u.at > t.at
        /\ timers' = timers \ {t}
    /\ startPoll
    /\ UNCHANGED <<opts, env, limit, _state, _pollTimeout, _lastPollTime, _buffer, _paused,
                   now, immediates, ended, nPokes, lastPoll, produced, delivered,
                   errors, fs>>

\* A setImmediate callback of _resume or poke runs: _poll().
immediateRuns ==
    /\ immediates > 0
    /\ immediates' = immediates - 1
    /\ startPoll
    /\ UNCHANGED <<opts, env, limit, _state, _pollTimeout, _lastPollTime, _buffer, _paused,
                   now, timers, ended, nPokes, lastPoll, produced, delivered,
                   errors, fs>>

\* The clock advances.
tick ==
    /\ now < limit.time
    /\ now' = now + 1
    /\ UNCHANGED <<opts, env, limit, _state, _pollTimeout, _lastPollTime, _buffer, _paused,
                   timers, immediates, ended, polls, nPolls, nPokes, lastPoll, produced,
                   delivered, errors, fs>>

\* The clock advances, and goes on advancing for as long as an armed timer
\* is not yet due: time does not stop short of a deadline.
timePasses ==
    /\ IF \E t \in timers : now < t.at THEN TRUE ELSE now < limit.time
    /\ now' = now + 1
    /\ UNCHANGED <<opts, env, limit, _state, _pollTimeout, _lastPollTime, _buffer, _paused,
                   timers, immediates, ended, polls, nPolls, nPokes, lastPoll, produced,
                   delivered, errors, fs>>

\* ---- the local sync directory

\* firstRunLocalDirents: the entry of one non-directory name of syncDir.
localDirent(n) == [name |-> n, size |-> fs.files[n].size, md5 |-> fs.files[n].md5]

\* The names readdir reports that pass filter.name.
readdirNames ==
    {n \in DOMAIN fs.files : opts.filter.name = None \/ n \in opts.filter.name[1]}

\* lstatOne over the names in readdir order: directories are skipped.
localDirentsOf(order) ==
    LET files == SelectSeqBy(order, {n \in DOMAIN fs.files : ~fs.files[n].isDir})
    IN  [i \in 1..Len(files) |-> localDirent(files[i])]

\* changesFromDirents, syncDir branch, first loop: a delete for each local
\* dirent the listing lacks.
RECURSIVE deletesFromLocalDirents(_, _)
deletesFromLocalDirents(lds, ds) ==
    IF lds = <<>> THEN <<>>
    ELSE LET rest == deletesFromLocalDirents(Tail(lds), ds)
         IN  IF ~HasName(ds, Head(lds).name)
             THEN <<[action |-> "delete", oldLocalDirent |-> Head(lds)]>> \o rest
             ELSE rest

\* Second loop: a create for each dirent with no local dirent.
RECURSIVE createsFromLocalDirents(_, _)
createsFromLocalDirents(lds, ds) ==
    IF ds = <<>> THEN <<>>
    ELSE LET rest == createsFromLocalDirents(lds, Tail(ds))
         IN  IF ~HasName(lds, Head(ds).name)
             THEN <<[action |-> "create", dirent |-> Head(ds)]>> \o rest
             ELSE rest

\* Second loop: the names that have a local dirent, in listing order.
RECURSIVE possibleUpdatesOf(_, _)
possibleUpdatesOf(lds, ds) ==
    IF ds = <<>> THEN <<>>
    ELSE LET rest == possibleUpdatesOf(lds, Tail(ds))
         IN  IF HasName(lds, Head(ds).name) THEN <<Head(ds).name>> \o rest ELSE rest

\* A comparison by size alone.
checkPossibleUpdate_sizeOnly(dirent, ld) == dirent.size # ld.size

\* checkPossibleUpdate: client.info() of the object against the local file,
\* by size, and by md5 when the sizes agree.
checkPossibleUpdate(dirent, ld) ==
    IF dirent.size # ld.size THEN TRUE
    ELSE ld.md5 # dirent.md5

\* Third loop: an update for each possible update that differs.
RECURSIVE updatesFromLocalDirents(_, _, _)
updatesFromLocalDirents(names, lds, ds) ==
    IF names = <<>> THEN <<>>
    ELSE LET dirent == ByName(ds, Head(names))
             ld == ByName(lds, Head(names))
             rest == updatesFromLocalDirents(Tail(names), lds, ds)
         IN  IF checkPossibleUpdate(dirent, ld)
             THEN <<[action |-> "update", dirent |-> dirent, oldLocalDirent |-> ld]>>
                  \o rest
             ELSE rest

\* The syncDir branch with the first `checked` possible updates looked at.
changesFromLocalDirents(lds, ds, checked) ==
    deletesFromLocalDirents(lds, ds) \o createsFromLocalDirents(lds, ds)
    \o updatesFromLocalDirents(SubSeq(possibleUpdatesOf(lds, ds), 1, checked), lds, ds)

\* firstRunSyncDeleteGuard's deleteNames.
deleteNames(changes) ==
    LET dels == SelectSeq(changes, LAMBDA ch : ch.action = "delete")
    IN  [i \in 1..Len(dels) |-> dels[i].oldLocalDirent.name]

\* syncChange of a delete: the path handed to rimraf.
rimrafPath(ch) ==
    IF "oldDirent" \in DOMAIN ch
    THEN [dir |-> "dir", name |-> ch.oldDirent.name]
    ELSE [dir |-> "syncDir", name |-> ch.oldLocalDirent.name]

\* A syncChange that removes the local file whatever syncDelete says.
syncChange_deletesAlways(f, ch) ==
    IF ch.action = "delete"
    THEN LET path == rimrafPath(ch)
         IN  IF path.dir = "syncDir"
             THEN [f EXCEPT !.files = [n \in DOMAIN f.files \ {path.name} |-> f.files[n]],
                            !.rimrafed = @ \cup {path}]
             ELSE [f EXCEPT !.rimrafed = @ \cup {path}]
    ELSE [f EXCEPT !.exists = TRUE,
                   !.files = (ch.dirent.name :>
                                [size |-> ch.dirent.size, md5 |-> ch.dirent.md5,
                                 isDir |-> FALSE]) @@ f.files]

\* The file system after syncChange has run for one change without error.
syncChange(f, ch) ==
    IF ch.action = "delete"
    THEN IF opts.syncDelete
         THEN LET path == rimrafPath(ch)
              IN  IF path.dir = "syncDir"
                  THEN [f EXCEPT !.files = [n \in DOMAIN f.files \ {path.name} |-> f.files[n]],
                                 !.rimrafed = @ \cup {path}]
                  ELSE [f EXCEPT !.rimrafed = @ \cup {path}]
         ELSE f
    ELSE \* _syncDirent: mkdirp, download to the temporary path, rename
         [f EXCEPT !.exists = TRUE,
                   !.files = (ch.dirent.name :>
                                [size |-> ch.dirent.size, md5 |-> ch.dirent.md5,
                                 isDir |-> FALSE]) @@ f.files]

RECURSIVE syncChangesTo(_, _)
syncChangesTo(f, changes) ==
    IF changes = <<>> THEN f
    ELSE syncChangesTo(syncChange(f, Head(changes)), Tail(changes))

\* The ways syncChange can fail for one change on file system f.
syncFailures(f, ch) ==
    IF ch.action = "delete"
    THEN IF opts.syncDelete THEN {"rimraf"} \cap env.syncFaults ELSE {}
    ELSE IF ch.dirent.name \in DOMAIN f.files /\ f.files[ch.dirent.name].isDir
         THEN {"rename"}
         ELSE {"mkdirp", "rename", "download"} \cap env.syncFaults

\* Whether syncChange must fail: rename onto a directory.
syncMustFail(f, ch) ==
    /\ ch.action # "delete"
    /\ ch.dirent.name \in DOMAIN f.files
    /\ f.files[ch.dirent.name].isDir

\* The names of syncDir whose entry differs between two file systems.
changedFiles(f, g) ==
    {n \in DOMAIN f.files \cup DOMAIN g.files :
        \/ (n \in DOMAIN f.files) # (n \in DOMAIN g.files)
        \/ n \in DOMAIN f.files /\ n \in DOMAIN g.files /\ f.files[n] # g.files[n]}

\* ---- the stages of one poll (the funcs of vasync.pipeline in _poll)

\* firstRunLocalDirents calls next() at once.  Its test reads self.oldState,
\* a property the watcher never sets, so only syncDir decides.
skipLocalDirents(arg) == ~opts.syncDir

\* A guard that looks at every poll, with a snapshot or without.
skipSyncDeleteGuard_everyPoll(arg) ==
    \/ ~opts.syncDir
    \/ ~opts.syncDelete
    \/ opts.disableSyncDeleteGuard

\* firstRunSyncDeleteGuard calls next() at once.
skipSyncDeleteGuard(arg) ==
    \/ ~opts.syncDir
    \/ ~opts.syncDelete
    \/ arg.oldState # None
    \/ opts.disableSyncDeleteGuard

\* A syncChanges that syncs in a dry run too.
skipSyncChanges_ignoresDryRun(arg) == ~opts.syncDir

\* A syncChanges that always calls next() at once.
skipSyncChanges_always(arg) == TRUE

\* syncChanges calls next() at once.
skipSyncChanges(arg) == ~opts.syncDir \/ opts.dryRun

\* A pipeline that pushes the events before it syncs the changes.
stageAfter_pushBeforeSync(stage, arg) ==
    LET fromPush == IF skipSyncChanges(arg) THEN "saveStateAndScheduleNextPoll"
                    ELSE "syncChanges"
        fromGuard == IF skipSyncDeleteGuard(arg) THEN "pushEvents"
                     ELSE "firstRunSyncDeleteGuard"
    IN  CASE stage = "listDir" ->
                IF skipLocalDirents(arg) THEN "changesFromDirents"
                ELSE "firstRunLocalDirents"
          [] stage = "firstRunLocalDirents" -> "changesFromDirents"
          [] stage = "changesFromDirents" -> fromGuard
          [] stage = "firstRunSyncDeleteGuard" -> "pushEvents"
          [] stage = "pushEvents" -> fromPush
          [] stage = "syncChanges" -> "saveStateAndScheduleNextPoll"

\* The stage that runs after `stage` has called next() for context arg.
stageAfter(stage, arg) ==
    LET fromSync == IF skipSyncChanges(arg) THEN "pushEvents" ELSE "syncChanges"
        fromGuard == IF skipSyncDeleteGuard(arg) THEN fromSync
                     ELSE "firstRunSyncDeleteGuard"
    IN  CASE stage = "listDir" ->
                IF skipLocalDirents(arg) THEN "changesFromDirents"
                ELSE "firstRunLocalDirents"
          [] stage = "firstRunLocalDirents" -> "changesFromDirents"
          [] stage = "changesFromDirents" -> fromGuard
          [] stage = "firstRunSyncDeleteGuard" -> fromSync
          [] stage = "syncChanges" -> "pushEvents"
          [] stage = "pushEvents" -> "saveStateAndScheduleNextPoll"

\* A listDir for which 404 is an error like any other.
lsFails_also404(res) == res # "ok"

\* listDir hands the error of client.ls() to next(), unless it is a 404; the
\* error emitted is the one client.ls() reported.
lsFails(res) == res = "err"

\* listDir: client.ls() fails, reports 404 or lists the directory.
listDir(p) ==
    /\ polls[p].pc = "listDir"
    /\ \E res \in env.ls, listing \in Listings(env) :
        /\ res # "ok" => listing = <<>>
        /\ IF lsFails(res)
           THEN finishPoll(p, IF res = "404" THEN "404" ELSE "ls", _state, {})
           ELSE /\ polls' = [polls EXCEPT ![p].pc = stageAfter("listDir", polls[p]),
                                          ![p].ls = res,
                                          ![p].listing = listing,
                                          ![p].dirents = keptDirents(listing)]
                /\ UNCHANGED <<errors, lastPoll>>
    /\ UNCHANGED <<opts, env, limit, _state, _pollTimeout, _lastPollTime, _buffer, _paused,
                   now, timers, immediates, ended, nPolls, nPokes, produced, delivered, fs>>

\* firstRunLocalDirents: collect the local dirents of syncDir; a syncDir
\* that does not exist (ENOENT) has none.
firstRunLocalDirents(p) ==
    /\ polls[p].pc = "firstRunLocalDirents"
    /\ IF ~fs.exists
       THEN /\ polls' = [polls EXCEPT ![p].pc = "changesFromDirents"]
            /\ UNCHANGED <<errors, lastPoll>>
       ELSE \E res \in env.readdir, order \in Perms(readdirNames) :
              /\ res = "lstat" => order # <<>>
              /\ IF res = "ok"
                 THEN /\ polls' = [polls EXCEPT ![p].pc = "changesFromDirents",
                                                ![p].localDirents = localDirentsOf(order)]
                      /\ UNCHANGED <<errors, lastPoll>>
                 ELSE finishPoll(p, res, _state, {})
    /\ UNCHANGED <<opts, env, limit, _state, _pollTimeout, _lastPollTime, _buffer, _paused,
                   now, timers, immediates, ended, nPolls, nPokes, produced, delivered, fs>>

\* changesFromDirents: against oldState; else against the local dirents, with
\* client.info() failing for the possible update after the first `checked`;
\* else nothing.
changesFromDirents(p) ==
    /\ polls[p].pc = "changesFromDirents"
    /\ LET arg == polls[p]
           possible == possibleUpdatesOf(arg.localDirents, arg.dirents)
       IN  IF arg.oldState # None
           THEN /\ polls' = [polls EXCEPT
                        ![p].pc = stageAfter("changesFromDirents", arg),
                        ![p].changes = changesFromOldState(arg.oldState[1], arg.dirents)]
                /\ UNCHANGED <<errors, lastPoll>>
           ELSE IF opts.syncDir
           THEN \E checked \in 0..Len(possible) :
                  /\ checked < Len(possible) => env.infoFails
                  /\ IF checked = Len(possible)
                     THEN /\ polls' = [polls EXCEPT
                                  ![p].pc = stageAfter("changesFromDirents", arg),
                                  ![p].possibleUpdates = Some(possible),
                                  ![p].changes = changesFromLocalDirents(
                                      arg.localDirents, arg.dirents, checked)]
                          /\ UNCHANGED <<errors, lastPoll>>
                     ELSE finishPoll(p, "info", _state, {})
           ELSE /\ polls' = [polls EXCEPT ![p].pc = stageAfter("changesFromDirents", arg)]
                /\ UNCHANGED <<errors, lastPoll>>
    /\ UNCHANGED <<opts, env, limit, _state, _pollTimeout, _lastPollTime, _buffer, _paused,
                   now, timers, immediates, ended, nPolls, nPokes, produced, delivered, fs>>

\* A guard that lets a single delete through.
guardTrips_moreThanOne(arg) ==
    /\ Len(deleteNames(arg.changes)) > 1
    /\ Len(arg.possibleUpdates[1]) = 0

\* The guard's test: local files would be deleted and no name matched.
guardTrips(arg) ==
    /\ Len(deleteNames(arg.changes)) > 0
    /\ Len(arg.possibleUpdates[1]) = 0

\* firstRunSyncDeleteGuard
firstRunSyncDeleteGuard(p) ==
    /\ polls[p].pc = "firstRunSyncDeleteGuard"
    /\ LET arg == polls[p]
       IN  IF guardTrips(arg)
           THEN finishPoll(p, "guard", _state, {})
           ELSE /\ polls' = [polls EXCEPT
                        ![p].pc = stageAfter("firstRunSyncDeleteGuard", arg)]
                /\ UNCHANGED <<errors, lastPoll>>
    /\ UNCHANGED <<opts, env, limit, _state, _pollTimeout, _lastPollTime, _buffer, _paused,
                   now, timers, immediates, ended, nPolls, nPokes, produced, delivered, fs>>

\* Whether syncChange can succeed for each of the changes in turn.
RECURSIVE canSync(_, _)
canSync(f, changes) ==
    IF changes = <<>> THEN TRUE
    ELSE /\ ~syncMustFail(f, Head(changes))
         /\ canSync(syncChange(f, Head(changes)), Tail(changes))

\* syncChanges: the first n changes are synced; the next one, if any, fails.
syncChanges(p) ==
    /\ polls[p].pc = "syncChanges"
    /\ LET arg == polls[p]
       IN  \E n \in 0..Len(arg.changes) :
                  LET done == SubSeq(arg.changes, 1, n)
                      f == syncChangesTo(fs, done)
                  IN  /\ canSync(fs, done)
                      /\ \E how \in (IF n = Len(arg.changes) THEN {"ok"}
                                     ELSE syncFailures(f, arg.changes[n + 1])) :
                           LET g == IF how \in {"rename", "download"}
                                    THEN [f EXCEPT
                                            !.exists = TRUE,
                                            !.tmp = IF how = "download"
                                                    THEN @ \cup {arg.changes[n + 1].dirent.name}
                                                    ELSE @]
                                    ELSE f
                               touched == arg.touched \cup changedFiles(fs, g)
                           IN  /\ fs' = g
                               /\ IF how = "ok"
                                  THEN /\ polls' = [polls EXCEPT
                                                    ![p].pc = stageAfter("syncChanges", arg),
                                                    ![p].touched = touched]
                                       /\ UNCHANGED <<errors, lastPoll>>
                                  ELSE IF how = "download"
                                  THEN \* no 'finish', and nothing listens for the error
                                       /\ polls' = [polls EXCEPT ![p].pc = "hung",
                                                                 ![p].touched = touched]
                                       /\ UNCHANGED <<errors, lastPoll>>
                                  ELSE finishPoll(p, how, _state, touched)
    /\ UNCHANGED <<opts, env, limit, _state, _pollTimeout, _lastPollTime, _buffer, _paused,
                   now, timers, immediates, ended, nPolls, nPokes, produced, delivered>>

\* A pushEvents that makes a group of no events too.
hasEvents_always(events) == TRUE

\* pushEvents' test: there is a group to push or buffer.
hasEvents(events) == Len(events) > 0

\* A pushEvents that buffers its group whether paused or not.
buffersGroup_always == TRUE

\* pushEvents' test: the group goes to the buffer, not to push().
buffersGroup == _paused

\* pushEvents: one group of the poll's events, buffered while paused, else
\* pushed; `ok` is what push() returns.  push() after the stream has ended
\* emits 'error', drops the group and returns false.
pushEvents(p) ==
    /\ polls[p].pc = "pushEvents"
    /\ polls' = [polls EXCEPT ![p].pc = stageAfter("pushEvents", polls[p])]
    /\ LET events == eventsFromChanges(polls[p].changes)
           group == [poll |-> p, events |-> events]
       IN  IF ~hasEvents(events)
           THEN UNCHANGED <<_buffer, _paused, _pollTimeout, timers, produced,
                            delivered, errors>>
           ELSE /\ produced' = Append(produced, group)
                /\ IF buffersGroup
                   THEN /\ _buffer' = Append(_buffer, group)
                        /\ UNCHANGED <<_paused, _pollTimeout, timers, delivered, errors>>
                   ELSE \E ok \in (IF ended THEN {FALSE} ELSE BOOLEAN) :
                          /\ delivered' = IF ended THEN delivered
                                          ELSE Append(delivered, group)
                          /\ errors' = IF ended
                                       THEN errors \cup {[poll |-> p, kind |-> "push after EOF"]}
                                       ELSE errors
                          /\ IF ok
                             THEN UNCHANGED <<_paused, _pollTimeout, timers>>
                             ELSE \* _pause()
                                  /\ _paused' = TRUE
                                  /\ timers' = clearTimeout(timers, _pollTimeout)
                                  /\ _pollTimeout' = 0
                          /\ UNCHANGED _buffer
    /\ UNCHANGED <<opts, env, limit, _state, _lastPollTime, now, immediates, ended, nPolls, nPokes,
                   lastPoll, fs>>

\* A saveStateAndScheduleNextPoll that never arms the timer.
armsNextPoll_never == FALSE

\* A saveStateAndScheduleNextPoll that arms the timer while paused too.
armsNextPoll_whilePaused == TRUE

\* saveStateAndScheduleNextPoll's test: the next poll's timer is armed.
armsNextPoll == ~_paused

\* saveStateAndScheduleNextPoll, then finishPoll without an error.
saveStateAndScheduleNextPoll(p) ==
    /\ polls[p].pc = "saveStateAndScheduleNextPoll"
    /\ _state' = Some(polls[p].dirents)
    /\ _lastPollTime' = now
    /\ IF armsNextPoll
       THEN /\ timers' = setTimeout(timers, opts.intervalMs)
            /\ _pollTimeout' = newHandle
       ELSE UNCHANGED <<timers, _pollTimeout>>
    /\ finishPoll(p, "", Some(polls[p].dirents), polls[p].touched)
    /\ UNCHANGED <<opts, env, limit, _buffer, _paused, now, immediates, ended, nPolls, nPokes,
                   produced, delivered, fs>>

\* ---- specifications

\* The watcher as its constructor leaves it, for options o, collaborators e
\* and a local file system f.
InitWith(o, e, l, f) ==
    /\ opts = o
    /\ env = e
    /\ limit = l
    /\ fs = f
    /\ _state = None
    /\ _pollTimeout = 0
    /\ _lastPollTime = 0
    /\ _buffer = <<>>
    /\ _paused = TRUE
    /\ now = 1
    /\ timers = {}
    /\ immediates = 0
    /\ ended = FALSE
    /\ polls = <<>>
    /\ nPolls = 0
    /\ nPokes = 0
    /\ lastPoll = [id |-> 0, err |-> "", ls |-> "", listing |-> <<>>,
                   oldState |-> None, before |-> None,
                   state |-> None, dirents |-> <<>>, localDirents |-> <<>>,
                   changes |-> <<>>, touched |-> {}]
    /\ produced = <<>>
    /\ delivered = <<>>
    /\ errors = {}

NoFilter == [type |-> "", name |-> None]

\* The attributes of an object of size 1 and md5 1 with the given etag.
Object(etag) == [type |-> "object", etag |-> etag, mtime |-> 1, size |-> 1, md5 |-> 1]

EmptyFs == [exists |-> FALSE, files |-> <<>>, tmp |-> {}, rimrafed |-> {}]

\* A watcher with no syncDir, on a directory of one name whose etag changes.
Init ==
    InitWith([syncDir |-> FALSE, syncDelete |-> FALSE, disableSyncDeleteGuard |-> FALSE,
              dryRun |-> FALSE, filter |-> NoFilter, intervalMs |-> 2],
             [names |-> {1}, attrs |-> {Object(1), Object(2)}, sorted |-> FALSE,
              ls |-> {"ok", "err", "404"}, readdir |-> {"ok"}, infoFails |-> FALSE,
              syncFaults |-> {}],
             [polls |-> MaxPolls, pokes |-> MaxPokes, time |-> MaxTime],
             EmptyFs)

\* The budgets of a behaviour of one poll, and of two polls an interval apart.
OnePoll == [polls |-> 1, pokes |-> 0, time |-> 1]
TwoPolls == [polls |-> 2, pokes |-> 0, time |-> 2]

\* The bootstrap poll of a watcher with a syncDir: one poll from the
\* constructor's state, for every local directory and listing over Names.
\* Every remote object has size 1 and md5 1; a local file has them equal, or
\* its size or its md5 different.
LocalFiles ==
    {[size |-> 1, md5 |-> 1, isDir |-> FALSE], [size |-> 2, md5 |-> 1, isDir |-> FALSE],
     [size |-> 1, md5 |-> 2, isDir |-> FALSE], [size |-> 1, md5 |-> 1, isDir |-> TRUE]}

LocalDirs ==
    {EmptyFs} \cup
    UNION {{[exists |-> TRUE, files |-> f, tmp |-> {}, rimrafed |-> {}] :
                f \in [S -> LocalFiles]} : S \in SUBSET Names}

InitBootstrap ==
    \E syncDelete \in BOOLEAN, disableSyncDeleteGuard \in BOOLEAN,
       name \in {None, Some({1})}, f \in LocalDirs :
        InitWith([syncDir |-> TRUE, syncDelete |-> syncDelete,
                  disableSyncDeleteGuard |-> disableSyncDeleteGuard, dryRun |-> FALSE,
                  filter |-> [type |-> "", name |-> name], intervalMs |-> 2],
                 [names |-> Names, attrs |-> {Object(1)}, sorted |-> FALSE,
                  ls |-> {"ok", "err", "404"},
                  readdir |-> {"ok", "readdir", "lstat"}, infoFails |-> TRUE,
                  syncFaults |-> {"mkdirp", "rename", "rimraf", "download"}],
                 OnePoll,
                 f)

NextBootstrap ==
    \/ _resume
    \/ close
    \/ immediateRuns
    \/ \E p \in DOMAIN polls : listDir(p)
    \/ \E p \in DOMAIN polls : firstRunLocalDirents(p)
    \/ \E p \in DOMAIN polls : changesFromDirents(p)
    \/ \E p \in DOMAIN polls : firstRunSyncDeleteGuard(p)
    \/ \E p \in DOMAIN polls : syncChanges(p)
    \/ \E p \in DOMAIN polls : pushEvents(p)
    \/ \E p \in DOMAIN polls : saveStateAndScheduleNextPoll(p)

SpecBootstrap == InitBootstrap /\ [][NextBootstrap]_vars

\* Two polls of a watcher with no syncDir one interval apart, for every pair
\* of listings over Names of entries that are an object, the object with
\* another etag, the object with another mtime, or a directory, with and
\* without filter.type.
DiffAttrs ==
    {Object(1), Object(2), [Object(1) EXCEPT !.mtime = 2],
     [Object(1) EXCEPT !.type = "directory"]}

InitDiff ==
    \E type \in {"", "object"} :
        InitWith([syncDir |-> FALSE, syncDelete |-> FALSE,
                  disableSyncDeleteGuard |-> FALSE, dryRun |-> FALSE,
                  filter |-> [type |-> type, name |-> None], intervalMs |-> 1],
                 [names |-> Names, attrs |-> DiffAttrs, sorted |-> TRUE,
                  ls |-> {"ok", "404"}, readdir |-> {"ok"}, infoFails |-> FALSE,
                  syncFaults |-> {}],
                 TwoPolls,
                 EmptyFs)

NextDiff ==
    \/ _resume
    \/ timerFires
    \/ immediateRuns
    \/ tick
    \/ \E p \in DOMAIN polls : listDir(p)
    \/ \E p \in DOMAIN polls : changesFromDirents(p)
    \/ \E p \in DOMAIN polls : pushEvents(p)
    \/ \E p \in DOMAIN polls : saveStateAndScheduleNextPoll(p)

SpecDiff == InitDiff /\ [][NextDiff]_vars

\* Two polls of a watcher with no syncDir one interval apart, with and
\* without filter.type and filter.name, on listings of objects and
\* directories.
InitFilter ==
    \E type \in {"", "object"}, name \in {None, Some({1})} :
        InitWith([syncDir |-> FALSE, syncDelete |-> FALSE,
                  disableSyncDeleteGuard |-> FALSE, dryRun |-> FALSE,
                  filter |-> [type |-> type, name |-> name], intervalMs |-> 1],
                 [names |-> Names,
                  attrs |-> {Object(1), Object(2), [Object(1) EXCEPT !.type = "directory"]},
                  sorted |-> TRUE,
                  ls |-> {"ok", "404"}, readdir |-> {"ok"}, infoFails |-> FALSE,
                  syncFaults |-> {}],
                 TwoPolls,
                 EmptyFs)

NextFilter ==
    \/ _resume
    \/ timerFires
    \/ immediateRuns
    \/ tick
    \/ \E p \in DOMAIN polls : listDir(p)
    \/ \E p \in DOMAIN polls : changesFromDirents(p)
    \/ \E p \in DOMAIN polls : pushEvents(p)
    \/ \E p \in DOMAIN polls : saveStateAndScheduleNextPoll(p)

SpecFilter == InitFilter /\ [][NextFilter]_vars

\* A watcher with a syncDir that does not exist yet and dryRun, poked as
\* often as it may poll while its consumer reads, stops reading and reads
\* again: every poll that sees a difference has events.
InitFlow ==
    InitWith([syncDir |-> TRUE, syncDelete |-> FALSE, disableSyncDeleteGuard |-> FALSE,
              dryRun |-> TRUE, filter |-> NoFilter, intervalMs |-> 2],
             [names |-> {1}, attrs |-> {Object(1)}, sorted |-> FALSE,
              ls |-> {"ok"}, readdir |-> {"ok"}, infoFails |-> FALSE,
              syncFaults |-> {}],
             [polls |-> MaxPolls, pokes |-> MaxPolls, time |-> MaxTime],
             EmptyFs)

NextFlow ==
    \/ _resume
    \/ poke
    \/ timerFires
    \/ immediateRuns
    \/ tick
    \/ \E p \in DOMAIN polls : listDir(p)
    \/ \E p \in DOMAIN polls : firstRunLocalDirents(p)
    \/ \E p \in DOMAIN polls : changesFromDirents(p)
    \/ \E p \in DOMAIN polls : pushEvents(p)
    \/ \E p \in DOMAIN polls : saveStateAndScheduleNextPoll(p)

SpecFlow == InitFlow /\ [][NextFlow]_vars

\* Either one poll of a watcher with a syncDir and dryRun, which reconciles
\* its listing against a mirror whose files differ from the remote objects,
\* or two polls an interval apart of a watcher with no syncDir, the second of
\* which diffs its listing against the first's; the listings are over Names
\* in any order.
StaleDirs ==
    {[exists |-> TRUE, files |-> [n \in S |-> [size |-> 1, md5 |-> 2, isDir |-> FALSE]],
      tmp |-> {}, rimrafed |-> {}] : S \in SUBSET Names}

InitOrder ==
    \E syncDir \in BOOLEAN, f \in StaleDirs :
        /\ ~syncDir => f.files = <<>>
        /\ InitWith([syncDir |-> syncDir, syncDelete |-> FALSE,
                     disableSyncDeleteGuard |-> FALSE, dryRun |-> TRUE,
                     filter |-> NoFilter, intervalMs |-> 1],
                    [names |-> Names, attrs |-> {Object(1), Object(2)}, sorted |-> FALSE,
                     ls |-> {"ok"}, readdir |-> {"ok"}, infoFails |-> FALSE,
                     syncFaults |-> {}],
                    IF syncDir THEN OnePoll ELSE TwoPolls,
                    f)

NextOrder ==
    \/ _resume
    \/ timerFires
    \/ immediateRuns
    \/ tick
    \/ \E p \in DOMAIN polls : listDir(p)
    \/ \E p \in DOMAIN polls : firstRunLocalDirents(p)
    \/ \E p \in DOMAIN polls : changesFromDirents(p)
    \/ \E p \in DOMAIN polls : pushEvents(p)
    \/ \E p \in DOMAIN polls : saveStateAndScheduleNextPoll(p)

SpecOrder == InitOrder /\ [][NextOrder]_vars

\* Two polls an interval apart of a watcher that syncs to its syncDir, with
\* and without syncDelete, the guard disabled: the first poll reconciles
\* against the mirror, the second diffs against the first's snapshot and
\* syncs what changed; no sync operation fails.
InitSync ==
    \E syncDelete \in BOOLEAN, f \in {EmptyFs} \cup StaleDirs :
        InitWith([syncDir |-> TRUE, syncDelete |-> syncDelete,
                  disableSyncDeleteGuard |-> TRUE, dryRun |-> FALSE,
                  filter |-> NoFilter, intervalMs |-> 1],
                 [names |-> Names, attrs |-> {Object(1)}, sorted |-> TRUE,
                  ls |-> {"ok"}, readdir |-> {"ok"}, infoFails |-> FALSE,
                  syncFaults |-> {}],
                 TwoPolls,
                 f)

NextSync ==
    \/ _resume
    \/ timerFires
    \/ immediateRuns
    \/ tick
    \/ \E p \in DOMAIN polls : listDir(p)
    \/ \E p \in DOMAIN polls : firstRunLocalDirents(p)
    \/ \E p \in DOMAIN polls : changesFromDirents(p)
    \/ \E p \in DOMAIN polls : syncChanges(p)
    \/ \E p \in DOMAIN polls : pushEvents(p)
    \/ \E p \in DOMAIN polls : saveStateAndScheduleNextPoll(p)

SpecSync == InitSync /\ [][NextSync]_vars

\* Two polls an interval apart of a watcher with dryRun and a syncDir that
\* exists, where reading the directory or a file's status can fail.
InitMirror ==
    \E f \in StaleDirs :
        InitWith([syncDir |-> TRUE, syncDelete |-> FALSE,
                  disableSyncDeleteGuard |-> FALSE, dryRun |-> TRUE,
                  filter |-> NoFilter, intervalMs |-> 1],
                 [names |-> Names, attrs |-> {Object(1)}, sorted |-> TRUE,
                  ls |-> {"ok"}, readdir |-> {"ok", "readdir", "lstat"},
                  infoFails |-> FALSE, syncFaults |-> {}],
                 TwoPolls,
                 f)

NextMirror ==
    \/ _resume
    \/ timerFires
    \/ immediateRuns
    \/ tick
    \/ \E p \in DOMAIN polls : listDir(p)
    \/ \E p \in DOMAIN polls : firstRunLocalDirents(p)
    \/ \E p \in DOMAIN polls : changesFromDirents(p)
    \/ \E p \in DOMAIN polls : pushEvents(p)
    \/ \E p \in DOMAIN polls : saveStateAndScheduleNextPoll(p)

SpecMirror == InitMirror /\ [][NextMirror]_vars

\* A watcher with dryRun, syncDelete and the guard, on a syncDir that exists
\* and is empty or holds a stale file 1, watching a directory of one name;
\* the caller may call poke(), also after a poll has ended with an error.
InitGuard ==
    \E f \in {d \in StaleDirs : DOMAIN d.files \subseteq {1}} :
        InitWith([syncDir |-> TRUE, syncDelete |-> TRUE,
                  disableSyncDeleteGuard |-> FALSE, dryRun |-> TRUE,
                  filter |-> NoFilter, intervalMs |-> 2],
                 [names |-> {1}, attrs |-> {Object(1)}, sorted |-> TRUE,
                  ls |-> {"ok"}, readdir |-> {"ok"},
                  infoFails |-> FALSE, syncFaults |-> {}],
                 [polls |-> MaxPolls, pokes |-> MaxPokes, time |-> MaxTime],
                 f)

NextGuard ==
    \/ _resume
    \/ poke
    \/ timerFires
    \/ immediateRuns
    \/ tick
    \/ \E p \in DOMAIN polls : listDir(p)
    \/ \E p \in DOMAIN polls : firstRunLocalDirents(p)
    \/ \E p \in DOMAIN polls : changesFromDirents(p)
    \/ \E p \in DOMAIN polls : firstRunSyncDeleteGuard(p)
    \/ \E p \in DOMAIN polls : pushEvents(p)
    \/ \E p \in DOMAIN polls : saveStateAndScheduleNextPoll(p)

SpecGuard == InitGuard /\ [][NextGuard]_vars

\* Two polls an interval apart of a watcher with a syncDir, with and without
\* dryRun and syncDelete, the guard disabled; no sync operation fails.
InitDryRun ==
    \E dryRun \in BOOLEAN, syncDelete \in BOOLEAN, f \in {EmptyFs} \cup StaleDirs :
        InitWith([syncDir |-> TRUE, syncDelete |-> syncDelete,
                  disableSyncDeleteGuard |-> TRUE, dryRun |-> dryRun,
                  filter |-> NoFilter, intervalMs |-> 1],
                 [names |-> Names, attrs |-> {Object(1)}, sorted |-> TRUE,
                  ls |-> {"ok"}, readdir |-> {"ok"}, infoFails |-> FALSE,
                  syncFaults |-> {}],
                 TwoPolls,
                 f)

NextDryRun ==
    \/ _resume
    \/ timerFires
    \/ immediateRuns
    \/ tick
    \/ \E p \in DOMAIN polls : listDir(p)
    \/ \E p \in DOMAIN polls : firstRunLocalDirents(p)
    \/ \E p \in DOMAIN polls : changesFromDirents(p)
    \/ \E p \in DOMAIN polls : syncChanges(p)
    \/ \E p \in DOMAIN polls : pushEvents(p)
    \/ \E p \in DOMAIN polls : saveStateAndScheduleNextPoll(p)

SpecDryRun == InitDryRun /\ [][NextDryRun]_vars

\* A watcher constructed with oneShot: true, a syncDir that does not exist
\* yet and dryRun.  The constructor and the handlers never read opts.oneShot.
InitOneShot ==
    InitWith([syncDir |-> TRUE, syncDelete |-> FALSE, disableSyncDeleteGuard |-> FALSE,
              dryRun |-> TRUE, filter |-> NoFilter, intervalMs |-> 2, oneShot |-> TRUE],
             [names |-> {1}, attrs |-> {Object(1), Object(2)}, sorted |-> FALSE,
              ls |-> {"ok", "err"}, readdir |-> {"ok"}, infoFails |-> FALSE,
              syncFaults |-> {}],
             [polls |-> MaxPolls, pokes |-> 0, time |-> MaxTime],
             EmptyFs)

NextOneShot ==
    \/ _resume
    \/ timerFires
    \/ immediateRuns
    \/ tick
    \/ \E p \in DOMAIN polls : listDir(p)
    \/ \E p \in DOMAIN polls : firstRunLocalDirents(p)
    \/ \E p \in DOMAIN polls : changesFromDirents(p)
    \/ \E p \in DOMAIN polls : pushEvents(p)
    \/ \E p \in DOMAIN polls : saveStateAndScheduleNextPoll(p)

SpecOneShot == InitOneShot /\ [][NextOneShot]_vars

\* A watcher that is never poked, with a syncDir that does not exist yet and
\* dryRun, whose consumer reads, stops reading and reads again at any moment.
InitTiming ==
    InitWith([syncDir |-> TRUE, syncDelete |-> FALSE, disableSyncDeleteGuard |-> FALSE,
              dryRun |-> TRUE, filter |-> NoFilter, intervalMs |-> 2],
             [names |-> {1}, attrs |-> {Object(1)}, sorted |-> FALSE,
              ls |-> {"ok", "err"}, readdir |-> {"ok"}, infoFails |-> FALSE,
              syncFaults |-> {}],
             [polls |-> MaxPolls, pokes |-> 0, time |-> MaxTime],
             EmptyFs)

NextTiming ==
    \/ _resume
    \/ timerFires
    \/ immediateRuns
    \/ tick
    \/ \E p \in DOMAIN polls : listDir(p)
    \/ \E p \in DOMAIN polls : firstRunLocalDirents(p)
    \/ \E p \in DOMAIN polls : changesFromDirents(p)
    \/ \E p \in DOMAIN polls : pushEvents(p)
    \/ \E p \in DOMAIN polls : saveStateAndScheduleNextPoll(p)

SpecTiming == InitTiming /\ [][NextTiming]_vars

\* The watcher of InitFlow with a short interval, poked while its polls are
\* in flight, whose consumer reads, stops reading and reads again.
InitPause ==
    InitWith([syncDir |-> TRUE, syncDelete |-> FALSE, disableSyncDeleteGuard |-> FALSE,
              dryRun |-> TRUE, filter |-> NoFilter, intervalMs |-> 1],
             [names |-> {1}, attrs |-> {Object(1)}, sorted |-> FALSE,
              ls |-> {"ok"}, readdir |-> {"ok"}, infoFails |-> FALSE,
              syncFaults |-> {}],
             [polls |-> MaxPolls + 2, pokes |-> MaxPokes + 1, time |-> MaxTime - 1],
             EmptyFs)

NextPause ==
    \/ _resume
    \/ poke
    \/ timerFires
    \/ immediateRuns
    \/ tick
    \/ \E p \in DOMAIN polls : listDir(p)
    \/ \E p \in DOMAIN polls : firstRunLocalDirents(p)
    \/ \E p \in DOMAIN polls : changesFromDirents(p)
    \/ \E p \in DOMAIN polls : pushEvents(p)
    \/ \E p \in DOMAIN polls : saveStateAndScheduleNextPoll(p)

SpecPause == InitPause /\ [][NextPause]_vars

\* The watcher of InitFlow with a short interval, every poll of which
\* succeeds and which is never closed, poked now and then.  The event loop
\* runs every callback that is ready (a due timer, an immediate, the next
\* stage of a pipeline), time goes on, and the consumer reads again whenever
\* the watcher is paused.
InitLive ==
    InitWith([syncDir |-> TRUE, syncDelete |-> FALSE, disableSyncDeleteGuard |-> FALSE,
              dryRun |-> TRUE, filter |-> NoFilter, intervalMs |-> 1],
             [names |-> {1}, attrs |-> {Object(1)}, sorted |-> FALSE,
              ls |-> {"ok"}, readdir |-> {"ok"}, infoFails |-> FALSE,
              syncFaults |-> {}],
             [polls |-> MaxPolls, pokes |-> MaxPokes, time |-> MaxTime],
             EmptyFs)

NextLive ==
    \/ _resume
    \/ poke
    \/ timerFires
    \/ immediateRuns
    \/ timePasses
    \/ \E p \in DOMAIN polls : listDir(p)
    \/ \E p \in DOMAIN polls : firstRunLocalDirents(p)
    \/ \E p \in DOMAIN polls : changesFromDirents(p)
    \/ \E p \in DOMAIN polls : pushEvents(p)
    \/ \E p \in DOMAIN polls : saveStateAndScheduleNextPoll(p)

SpecLive ==
    /\ InitLive
    /\ [][NextLive]_vars
    /\ WF_vars(_resume)
    /\ WF_vars(timerFires)
    /\ WF_vars(immediateRuns)
    /\ WF_vars(timePasses)
    /\ WF_vars(\E p \in DOMAIN polls : listDir(p))
    /\ WF_vars(\E p \in DOMAIN polls : firstRunLocalDirents(p))
    /\ WF_vars(\E p \in DOMAIN polls : changesFromDirents(p))
    /\ WF_vars(\E p \in DOMAIN polls : pushEvents(p))
    /\ WF_vars(\E p \in DOMAIN polls : saveStateAndScheduleNextPoll(p))

Next ==
    \/ _resume
    \/ poke
    \/ close
    \/ timerFires
    \/ immediateRuns
    \/ tick
    \/ \E p \in DOMAIN polls : listDir(p)
    \/ \E p \in DOMAIN polls : changesFromDirents(p)
    \/ \E p \in DOMAIN polls : pushEvents(p)
    \/ \E p \in DOMAIN polls : saveStateAndScheduleNextPoll(p)

Spec == Init /\ [][Next]_vars

\* ---- properties

\* The polls whose pipeline has started and has not finished.
InFlight == DOMAIN polls

\* The groups that poll p produced.
GroupsOf(p) == {i \in 1..Len(produced) : produced[i].poll = p}

\* The groups the consumer has been handed or that wait in the buffer.
Kept == SeqToSet(delivered) \cup SeqToSet(_buffer)

\* The names of the changes of one action.
NamesOfAction(changes, action) ==
    {eventFromChange(changes[i]).name :
        i \in {j \in 1..Len(changes) : changes[j].action = action}}

\* The non-directory entries of syncDir that pass filter.name.
MirrorFiles ==
    {n \in DOMAIN fs.files :
        /\ ~fs.files[n].isDir
        /\ opts.filter.name = None \/ n \in opts.filter.name[1]}

\* A poll with no snapshot and a syncDir has computed its changes and has
\* not yet synced any.
Bootstrapped(p) ==
    /\ opts.syncDir
    /\ polls[p].oldState = None
    /\ polls[p].pc \in {"firstRunSyncDeleteGuard", "syncChanges"}

\* The poll with context arg is one the sync-delete guard looks at.
GuardApplies(arg) ==
    /\ opts.syncDir
    /\ opts.syncDelete
    /\ ~opts.disableSyncDeleteGuard
    /\ arg.oldState = None

\* Poll p has diffed its listing against the snapshot it started with.
Diffed(p) ==
    /\ polls[p].oldState # None
    /\ polls[p].pc \in {"pushEvents", "saveStateAndScheduleNextPoll"}

\* C1: at most one poll pipeline is in flight at any time, also when poke()
\* is called while a poll is in flight.
C1_OnePollInFlight == Cardinality(InFlight) <= 1

\* C2: while the stream is open, the groups handed to the consumer followed
\* by the groups still buffered are the groups produced, each once and in
\* the order of production.
C2_DeliveredInOrder == ~ended => delivered \o _buffer = produced

\* The consumer has taken a group and refused more, and a later group waits
\* in the buffer.
C2_Witness ==
    /\ Len(delivered) >= 1
    /\ Len(_buffer) >= 1
    /\ _paused

\* C3: after a poll has ended with an error while the watcher is running
\* (not paused, not closed), another poll is scheduled: with no poll in
\* flight, a timer is armed or an immediate poll is pending.
C3_ErrorPollReschedules ==
    (lastPoll.err # "" /\ ~_paused /\ ~ended /\ InFlight = {})
        => (timers # {} \/ immediates > 0)

\* C4: when a poll ends with an error, the committed snapshot is exactly
\* what it was when that poll started.
C4_ErrorPollKeepsSnapshot ==
    (lastPoll.id # 0 /\ lastPoll.err # "") => lastPoll.state = lastPoll.oldState

\* C5: no poll has both emitted 'error' and had its event group pushed to
\* the consumer or buffered.
C5_GroupOrError == \A e \in errors : \A g \in Kept : g.poll # e.poll

\* A poll that had changes to announce ended with an error of syncChanges.
C5_Witness ==
    /\ lastPoll.err \in {"mkdirp", "rename", "rimraf"}
    /\ lastPoll.changes # <<>>
    /\ [poll |-> lastPoll.id, kind |-> lastPoll.err] \in errors

\* C6: once close() has been called no poll starts and no timer is armed.
C6_ClosedStartsNothing ==
    [][ended => (nPolls' = nPolls /\ timers' \subseteq timers)]_vars

\* C7: (as stated) on a poll the guard looks at, if some mirror file, passing
\* filter.name or not, is absent from the filtered listing and the mirror
\* and the listing have no name in common, the poll does not get past the
\* guard.
C7_GuardTripsForAnyMirrorFile ==
    \A p \in DOMAIN polls :
        (/\ Bootstrapped(p)
         /\ GuardApplies(polls[p])
         /\ \E n \in DOMAIN fs.files :
               ~fs.files[n].isDir /\ n \notin NamesOf(polls[p].dirents)
         /\ DOMAIN fs.files \cap NamesOf(polls[p].dirents) = {})
            => polls[p].pc = "firstRunSyncDeleteGuard"

\* C7: (amended) on a poll the guard looks at, if some mirror file that
\* passes filter.name is absent from the filtered listing and the mirror and
\* the listing have no name in common, the poll does not get past the
\* guard: it ends with the guard's error, no mirror file removed or written,
\* no event group produced and no snapshot committed.
C7_GuardTripsForMirrorFile ==
    /\ \A p \in DOMAIN polls :
          (/\ Bootstrapped(p)
           /\ GuardApplies(polls[p])
           /\ MirrorFiles \ NamesOf(polls[p].dirents) # {}
           /\ DOMAIN fs.files \cap NamesOf(polls[p].dirents) = {})
              => polls[p].pc = "firstRunSyncDeleteGuard"
    /\ (/\ lastPoll.id # 0
        /\ GuardApplies(lastPoll)
        /\ lastPoll.localDirents # <<>>
        /\ NamesOf(lastPoll.localDirents) \cap NamesOf(lastPoll.dirents) = {})
           => lastPoll.err = "guard"
    /\ lastPoll.err = "guard"
           => /\ lastPoll.touched = {}
              /\ fs.tmp = {} /\ fs.rimrafed = {}
              /\ GroupsOf(lastPoll.id) = {}
              /\ lastPoll.state = None

\* The guard stopped a poll whose listing was not empty.
C7_Witness ==
    /\ lastPoll.err = "guard"
    /\ lastPoll.localDirents # <<>>
    /\ lastPoll.dirents # <<>>

\* C8: the changes of a poll that diffs snapshot A against filtered listing
\* B are a create for exactly each name in B and not in A, a delete for
\* exactly each name in A and not in B, and an update for exactly each name
\* in both whose type or etag differs, one change per name; a name whose
\* mtime alone differs has no change, and A against A has none.
C8_DiffIsExact ==
    \A p \in DOMAIN polls :
        Diffed(p) =>
            LET A == polls[p].oldState[1]
                B == polls[p].dirents
                changes == polls[p].changes
                creates == NamesOf(B) \ NamesOf(A)
                deletes == NamesOf(A) \ NamesOf(B)
                updates == {n \in NamesOf(A) \cap NamesOf(B) :
                               \/ ByName(A, n).type # ByName(B, n).type
                               \/ ByName(A, n).etag # ByName(B, n).etag}
            IN  /\ NamesOfAction(changes, "create") = creates
                /\ NamesOfAction(changes, "delete") = deletes
                /\ NamesOfAction(changes, "update") = updates
                /\ Len(changes) = Cardinality(creates) + Cardinality(deletes)
                                      + Cardinality(updates)
                /\ SeqToSet(A) = SeqToSet(B) => changes = <<>>

\* A diff found one entry whose type or etag differs and left alone another
\* whose mtime alone differs.
C8_Witness ==
    \E p \in DOMAIN polls :
        /\ Diffed(p)
        /\ NamesOfAction(polls[p].changes, "update") # {}
        /\ \E n \in NamesOf(polls[p].dirents) \cap NamesOf(polls[p].oldState[1]) :
              /\ ByName(polls[p].dirents, n).mtime # ByName(polls[p].oldState[1], n).mtime
              /\ NamesOfAction(polls[p].changes, "update") = NamesOf(polls[p].dirents) \ {n}

\* C9: with no syncDir the first successful poll (the one that finishes
\* while no snapshot is committed) produces no event group, whatever it
\* listed, and commits its listing as the snapshot; an event group exists
\* only once a snapshot has been committed, so it comes from a later poll.
C9_FirstPollSilent ==
    ~opts.syncDir =>
        /\ (lastPoll.id # 0 /\ lastPoll.err = "" /\ lastPoll.before = None)
               => /\ GroupsOf(lastPoll.id) = {}
                  /\ lastPoll.state = Some(lastPoll.dirents)
        /\ \A p \in DOMAIN polls :
               polls[p].changes # <<>> => polls[p].oldState # None
        /\ produced # <<>> => _state # None

\* The first successful poll listed an entry, and a later poll has events.
C9_Witness ==
    /\ ~opts.syncDir
    /\ lastPoll.err = "" /\ lastPoll.before = None /\ lastPoll.dirents # <<>>
    /\ \E p \in DOMAIN polls : polls[p].changes # <<>>

\* C10: the changes of a bootstrap poll are a delete for exactly each
\* mirror file (non-directory, passing filter.name) whose name the listing
\* lacks, a create for exactly each listed entry with no mirror file, and an
\* update for exactly each name on both sides whose sizes differ or whose
\* sizes agree and md5 differ; one change per name.
C10_BootstrapChanges ==
    \A p \in DOMAIN polls :
        Bootstrapped(p) =>
            LET changes == polls[p].changes
                remote == NamesOf(polls[p].dirents)
                differs(n) ==
                    LET d == ByName(polls[p].dirents, n)
                    IN  \/ d.size # fs.files[n].size
                        \/ d.size = fs.files[n].size /\ d.md5 # fs.files[n].md5
                deletes == MirrorFiles \ remote
                creates == remote \ MirrorFiles
                updates == {n \in remote \cap MirrorFiles : differs(n)}
            IN  /\ NamesOfAction(changes, "delete") = deletes
                /\ NamesOfAction(changes, "create") = creates
                /\ NamesOfAction(changes, "update") = updates
                /\ Len(changes) = Cardinality(deletes) + Cardinality(creates)
                                      + Cardinality(updates)

\* A bootstrap poll found a mirror file to delete and one of equal size and
\* different md5 to update.
C10_Witness ==
    \E p \in DOMAIN polls :
        /\ Bootstrapped(p)
        /\ NamesOfAction(polls[p].changes, "delete") # {}
        /\ \E i \in 1..Len(polls[p].changes) :
              LET ch == polls[p].changes[i]
              IN  /\ ch.action = "update"
                  /\ ch.dirent.size = ch.oldLocalDirent.size

\* Poll p has produced its group and has not yet committed its listing.
Announced(p) == polls[p].pc = "saveStateAndScheduleNextPoll"

\* The position of name n in the listing ds.
PositionOf(ds, n) == CHOOSE i \in 1..Len(ds) : ds[i].name = n

\* The events of the given actions are in the order of the listing ds.
InListingOrder(events, actions, ds) ==
    \A i, j \in 1..Len(events) :
        (i < j /\ events[i].action \in actions /\ events[j].action \in actions)
            => PositionOf(ds, events[i].name) < PositionOf(ds, events[j].name)

\* No event of the actions `later` precedes an event of the actions `earlier`.
ComesBefore(events, earlier, later) ==
    \A i, j \in 1..Len(events) :
        (events[i].action \in earlier /\ events[j].action \in later) => i < j

\* C11: (as stated) in every event group, of an ordinary poll or of the
\* poll that reconciles against the mirror, the creates and updates come
\* first, in listing order, and the deletes after them.
C11_DeletesLast ==
    \A p \in DOMAIN polls : Announced(p) =>
        \A i \in GroupsOf(p) :
            /\ ComesBefore(produced[i].events, {"create", "update"}, {"delete"})
            /\ InListingOrder(produced[i].events, {"create", "update"}, polls[p].dirents)

\* C11: (amended) in the event group of an ordinary poll the creates and
\* updates come first, in listing order, and the deletes after them; in the
\* group of the poll that reconciles against the mirror the deletes come
\* first, then the creates in listing order, then the updates in listing
\* order.
C11_EventOrder ==
    \A p \in DOMAIN polls : Announced(p) =>
        \A i \in GroupsOf(p) :
            LET events == produced[i].events
            IN  IF polls[p].oldState # None
                THEN /\ ComesBefore(events, {"create", "update"}, {"delete"})
                     /\ InListingOrder(events, {"create", "update"}, polls[p].dirents)
                ELSE /\ ComesBefore(events, {"delete"}, {"create", "update"})
                     /\ ComesBefore(events, {"create"}, {"update"})
                     /\ InListingOrder(events, {"create"}, polls[p].dirents)
                     /\ InListingOrder(events, {"update"}, polls[p].dirents)

\* An ordinary poll announced a create or update and a delete.
C11_Witness ==
    \E p \in DOMAIN polls :
        /\ Announced(p)
        /\ polls[p].oldState # None
        /\ \E i \in GroupsOf(p) :
              /\ \E k \in 1..Len(produced[i].events) :
                    produced[i].events[k].action = "delete"
              /\ \E k \in 1..Len(produced[i].events) :
                    produced[i].events[k].action # "delete"

\* The sync operation of change ch has completed: the mirror holds the
\* object's content under its name and no temporary file, or, for a delete
\* with syncDelete, rimraf has run on the path syncChange computes.
Synced(ch) ==
    IF ch.action = "delete"
    THEN opts.syncDelete => rimrafPath(ch) \in fs.rimrafed
    ELSE /\ ch.dirent.name \in DOMAIN fs.files
         /\ fs.files[ch.dirent.name] =
                [size |-> ch.dirent.size, md5 |-> ch.dirent.md5, isDir |-> FALSE]
         /\ ch.dirent.name \notin fs.tmp

\* The errors of syncChanges.
SyncErrors == {"mkdirp", "rename", "rimraf"}

\* C12: with a syncDir and no dryRun, a poll is at pushEvents or has a group
\* only when every one of its changes has been synced, and a poll whose
\* sync failed or hangs has no group.
C12_SyncBeforeEmit ==
    (opts.syncDir /\ ~opts.dryRun) =>
        /\ \A p \in DOMAIN polls :
              (polls[p].pc = "pushEvents" \/ GroupsOf(p) # {})
                  => \A i \in 1..Len(polls[p].changes) : Synced(polls[p].changes[i])
        /\ \A p \in DOMAIN polls : polls[p].pc = "hung" => GroupsOf(p) = {}
        /\ \A e \in errors : e.kind \in SyncErrors => GroupsOf(e.poll) = {}

\* A poll has announced a create or update and a delete that it synced.
C12_Witness ==
    /\ opts.syncDir /\ ~opts.dryRun /\ opts.syncDelete
    /\ \E p \in DOMAIN polls :
          /\ GroupsOf(p) # {}
          /\ NamesOfAction(polls[p].changes, "delete") # {}
          /\ NamesOfAction(polls[p].changes, "create") # {}

\* C13: with a syncDir, syncDelete and no dryRun, after a poll has ended
\* without error the mirror holds no entry under the name of a delete of
\* that poll, whether the delete came from the snapshot or from the mirror.
C13_DeleteRemovesMirrorFile ==
    (/\ opts.syncDir /\ opts.syncDelete /\ ~opts.dryRun
     /\ lastPoll.id # 0 /\ lastPoll.err = "" /\ InFlight = {})
        => NamesOfAction(lastPoll.changes, "delete") \cap DOMAIN fs.files = {}

\* C14: a poll whose listing reported 404 goes on with no dirents and emits
\* no error; with a snapshot its changes are a delete of every entry of the
\* snapshot, announced as its group; it commits the empty snapshot and,
\* unless the watcher is paused, arms the timer of the next poll one
\* interval ahead.
C14_NotFoundIsEmptyListing ==
    [][/\ \A e \in errors' : e.kind # "404"
       /\ \A p \in DOMAIN polls : polls[p].ls = "404" =>
          /\ \A e \in errors' : e.poll # p
          /\ polls[p].dirents = <<>>
          /\ (polls[p].pc = "changesFromDirents" /\ polls'[p].pc # "changesFromDirents"
                 /\ polls[p].oldState # None)
                => /\ NamesOfAction(polls'[p].changes, "delete") = NamesOf(polls[p].oldState[1])
                   /\ Len(polls'[p].changes) = Len(polls[p].oldState[1])
          /\ (polls[p].pc = "pushEvents" /\ polls'[p].pc # "pushEvents"
                 /\ polls[p].changes # <<>>)
                => produced' = Append(produced,
                                      [poll |-> p, events |-> eventsFromChanges(polls[p].changes)])
          /\ p \notin DOMAIN polls'
                => /\ lastPoll'.id = p /\ lastPoll'.err = ""
                   /\ _state' = Some(<<>>)
                   /\ ~_paused => \E t \in timers' :
                                     t.id = _pollTimeout' /\ t.at = now + opts.intervalMs
      ]_vars

\* A poll whose listing reported 404 while the snapshot had entries ended
\* without error.
C14_Witness ==
    /\ lastPoll.ls = "404"
    /\ lastPoll.err = ""
    /\ lastPoll.oldState # None
    /\ lastPoll.oldState[1] # <<>>
    /\ GroupsOf(lastPoll.id) # {}

\* C15: with oneShot, once a poll has completed, with or without an error,
\* the stream has ended, no timer is armed and no second poll has started.
C15_OneShotEnds ==
    (opts.oneShot /\ lastPoll.id # 0)
        => (ended /\ timers = {} /\ nPolls = 1)

\* C16: a call of poke() leaves no timer armed, schedules a poll at once
\* and leaves the pause state as it was; a poll that announces its changes
\* while the watcher is paused appends its group to the buffer, hands
\* nothing to the consumer and leaves the watcher paused, and when it ends
\* while the watcher is paused it arms no timer.
C16_PokeCancelsEveryTimer ==
    [][/\ nPokes' # nPokes =>
            /\ timers' = {}
            /\ immediates' = immediates + 1
            /\ _paused' = _paused
       /\ \A p \in DOMAIN polls :
            /\ (_paused /\ polls[p].pc = "pushEvents" /\ polls'[p].pc # "pushEvents"
                   /\ polls[p].changes # <<>>)
                  => /\ _buffer' = Append(_buffer, [poll |-> p,
                                     events |-> eventsFromChanges(polls[p].changes)])
                     /\ delivered' = delivered
                     /\ _paused'
            /\ (_paused /\ p \notin DOMAIN polls')
                  => (_paused' /\ timers' = timers)
      ]_vars

\* C16, its parts that do not count the timers: poke() drops the timer whose
\* handle the watcher holds, schedules a poll and leaves the pause state.
C16_PokeKeepsPauseState ==
    [][/\ nPokes' # nPokes =>
            /\ \A t \in timers' : t.id # _pollTimeout
            /\ _pollTimeout' = 0
            /\ immediates' = immediates + 1
            /\ _paused' = _paused
       /\ \A p \in DOMAIN polls :
            /\ (_paused /\ polls[p].pc = "pushEvents" /\ polls'[p].pc # "pushEvents"
                   /\ polls[p].changes # <<>>)
                  => /\ _buffer' = Append(_buffer, [poll |-> p,
                                     events |-> eventsFromChanges(polls[p].changes)])
                     /\ delivered' = delivered
                     /\ _paused'
            /\ (_paused /\ p \notin DOMAIN polls')
                  => (_paused' /\ timers' = timers)
      ]_vars

\* C17: with no poke(), a poll starts only when no poll has completed yet
\* or at least one interval after the last successful poll completed.
C17_PollsAnIntervalApart ==
    [][nPolls' # nPolls =>
          (_lastPollTime = 0 \/ now >= _lastPollTime + opts.intervalMs)]_vars

\* C18: without syncDelete no step removes an entry of the mirror or runs
\* rimraf for a change.
C18_NoSyncDeleteKeepsFiles ==
    [][~opts.syncDelete =>
          /\ DOMAIN fs.files \subseteq DOMAIN fs.files'
          /\ fs.tmp \subseteq fs.tmp'
          /\ fs'.rimrafed = {}]_vars

\* Without syncDelete a delete has been announced for a name that is still
\* in the mirror.
C18_Witness ==
    /\ ~opts.syncDelete
    /\ \E i \in 1..Len(delivered) : \E k \in 1..Len(delivered[i].events) :
          /\ delivered[i].events[k].action = "delete"
          /\ delivered[i].events[k].name \in DOMAIN fs.files

\* C19: while the watcher is paused no armed timer starts a poll.
C19_NoTimerPollWhilePaused ==
    [][_paused =>
          ~(\E t \in timers : timers' = timers \ {t} /\ nPolls' = nPolls + 1)]_vars

\* C20: a resume whose flush hands over buffered groups keeps the groups it
\* has not handed over, in their order, behind the ones it has; if groups are
\* left the watcher is paused again; and a resume that ends paused arms no
\* timer and schedules no immediate poll.
C20_RefusedFlush ==
    [][(_paused /\ delivered' # delivered) =>
          /\ delivered' \o _buffer' = delivered \o _buffer
          /\ _buffer' # <<>> => _paused'
          /\ _paused' => /\ timers' \subseteq timers
                         /\ _pollTimeout' = 0
                         /\ immediates' = immediates]_vars

\* The consumer has refused more data during a flush: groups of polls run
\* by poke() alone (no resume has scheduled a poll, no timer has fired) have
\* been buffered, one has been handed over and another is still buffered.
C20_Witness ==
    /\ _paused
    /\ nPolls = nPokes
    /\ immediates = 0
    /\ polls = <<>>
    /\ Len(delivered) >= 1
    /\ Len(_buffer) >= 1
    /\ delivered[Len(delivered)].poll < _buffer[1].poll

\* The dirent passes the filters the watcher was made with.
Passes(d) ==
    /\ opts.filter.type # "" => d.type = opts.filter.type
    /\ opts.filter.name # None => d.name \in opts.filter.name[1]

\* The dirents a change is about.
DirentsOfChange(ch) ==
    CASE ch.action = "create" -> {ch.dirent}
      [] ch.action = "update" -> {ch.dirent, ch.oldDirent}
      [] ch.action = "delete" -> {ch.oldDirent}

\* C21: the snapshot a successful poll commits holds exactly the entries of
\* that poll's listing that pass filter.type and filter.name, whatever the
\* snapshot before held; no entry of a committed snapshot and no change of
\* a diff against a snapshot is about an entry a filter excludes.
C21_SnapshotIsFilteredListing ==
    /\ (lastPoll.id # 0 /\ lastPoll.err = "") =>
          /\ lastPoll.state # None
          /\ _state # None
          /\ SeqToSet(lastPoll.state[1]) =
                {d \in SeqToSet(lastPoll.listing) : Passes(d)}
          /\ Len(lastPoll.state[1]) = Cardinality(NamesOf(lastPoll.state[1]))
    /\ _state # None => \A d \in SeqToSet(_state[1]) : Passes(d)
    /\ \A p \in DOMAIN polls :
          Diffed(p) =>
              \A i \in 1..Len(polls[p].changes) :
                  \A d \in DirentsOfChange(polls[p].changes[i]) : Passes(d)

\* A second poll has committed its snapshot: its listing had an entry a
\* filter excludes, the snapshot before had an entry the listing lacks, and
\* the poll had changes.
C21_Witness ==
    /\ lastPoll.id = 2
    /\ lastPoll.err = ""
    /\ \E d \in SeqToSet(lastPoll.listing) : ~Passes(d)
    /\ NamesOf(lastPoll.oldState[1]) \ NamesOf(lastPoll.listing) # {}
    /\ lastPoll.changes # <<>>
    /\ _state = lastPoll.state

\* C22: a poll that started with a committed snapshot does not read the
\* mirror directory and does not end with an error of reading it.
C22_MirrorReadOnlyWithoutSnapshot ==
    /\ \A p \in DOMAIN polls :
          polls[p].oldState # None => polls[p].pc # "firstRunLocalDirents"
    /\ (lastPoll.id # 0 /\ lastPoll.oldState # None) =>
          lastPoll.err \notin {"readdir", "lstat"}

\* The polls seen to evaluate the guard: those it has stopped and those in
\* flight that have reached it.
GuardEvaluatedBy ==
    {e.poll : e \in {x \in errors : x.kind = "guard"}}
        \cup {p \in DOMAIN polls : polls[p].pc = "firstRunSyncDeleteGuard"}

\* C23: (as stated) the guard is evaluated in at most one poll, and no poll
\* that started with a committed snapshot ends with the guard's error.
C23_GuardEvaluatedOnce ==
    /\ Cardinality(GuardEvaluatedBy) <= 1
    /\ lastPoll.err = "guard" => lastPoll.oldState = None

\* C23: (amended) the guard is evaluated only in polls that start with no
\* committed snapshot: no poll that started with a committed snapshot
\* reaches the guard or ends with the guard's error.
C23_GuardOnlyWithoutSnapshot ==
    /\ \A p \in DOMAIN polls :
          polls[p].pc = "firstRunSyncDeleteGuard" => polls[p].oldState = None
    /\ lastPoll.err = "guard" => lastPoll.oldState = None

\* A poll that started with a committed snapshot has detected a delete and
\* ended without an error, after an earlier poll had passed the guard.
C23_Witness ==
    /\ GuardApplies([oldState |-> None])
    /\ lastPoll.id # 0
    /\ lastPoll.oldState # None
    /\ lastPoll.err = ""
    /\ \E i \in 1..Len(lastPoll.changes) : lastPoll.changes[i].action = "delete"

\* C24: no poll has made more than one group and no group made, handed over
\* or buffered is without events; a poll that completes with no changes has
\* made no group, and the step that completes a poll commits that poll's
\* snapshot and, unless the watcher is paused, arms the timer of the next
\* poll.
C24_OneGroupPerPoll ==
    [][/\ \A p \in 1..nPolls' : Cardinality({i \in 1..Len(produced') : produced'[i].poll = p}) <= 1
       /\ \A g \in SeqToSet(produced') \cup SeqToSet(delivered') \cup SeqToSet(_buffer') :
             Len(g.events) >= 1
       /\ (lastPoll'.id # lastPoll.id /\ lastPoll'.err = "") =>
             /\ lastPoll'.changes = <<>> =>
                   \A g \in SeqToSet(produced') : g.poll # lastPoll'.id
             /\ _state' = lastPoll'.state
             /\ _state' # None
             /\ ~_paused =>
                   \E t \in timers' \ timers :
                       t.id = _pollTimeout' /\ t.at = now + opts.intervalMs]_vars

\* A poll that diffed its listing against a snapshot found no change: it
\* has completed, no group was ever made and the next poll's timer is armed.
C24_Witness ==
    /\ lastPoll.id # 0
    /\ lastPoll.err = ""
    /\ lastPoll.oldState # None
    /\ lastPoll.changes = <<>>
    /\ produced = <<>>
    /\ _state = lastPoll.state
    /\ \E t \in timers : t.id = _pollTimeout

\* C25: a failed download leaves no poll waiting for it and no temporary
\* file in the mirror: the poll ends with an error.
C25_DownloadFailureCleansUp ==
    /\ \A p \in DOMAIN polls : polls[p].pc # "hung"
    /\ fs.tmp = {}

\* What the poll that finished as lp did must have found: against the
\* snapshot it started with, or with none against the local dirents it
\* collected.  Nothing here depends on dryRun.
ExpectedChanges(lp) ==
    LET remote == NamesOf(lp.dirents)
        old == IF lp.oldState # None THEN lp.oldState[1] ELSE lp.localDirents
        differs(n) ==
            LET d == ByName(lp.dirents, n)
                o == ByName(old, n)
            IN  IF lp.oldState # None
                THEN d.type # o.type \/ d.etag # o.etag
                ELSE d.size # o.size \/ d.md5 # o.md5
    IN  /\ NamesOfAction(lp.changes, "create") = remote \ NamesOf(old)
        /\ NamesOfAction(lp.changes, "delete") = NamesOf(old) \ remote
        /\ NamesOfAction(lp.changes, "update") =
              {n \in remote \cap NamesOf(old) : differs(n)}
        /\ Len(lp.changes) = Cardinality(NamesOfAction(lp.changes, "create"))
                               + Cardinality(NamesOfAction(lp.changes, "delete"))
                               + Cardinality(NamesOfAction(lp.changes, "update"))

\* C26: with dryRun no step changes the mirror; and with dryRun or without,
\* a poll that completes has found the changes its listing calls for, has
\* produced their group if there are any, and commits its listing.
C26_DryRunLeavesMirror ==
    [][/\ opts.dryRun => fs' = fs
       /\ (lastPoll'.id # lastPoll.id /\ lastPoll'.err = "") =>
             /\ ExpectedChanges(lastPoll')
             /\ lastPoll'.changes # <<>> =>
                   \E i \in 1..Len(produced') :
                       /\ produced'[i].poll = lastPoll'.id
                       /\ produced'[i].events = eventsFromChanges(lastPoll'.changes)
             /\ _state' = Some(lastPoll'.dirents)]_vars

\* A dry run has completed a poll that found a file to create, one to update
\* and one to delete (or two polls that did between them), and the mirror
\* is as it was: stale files, nothing written, nothing removed.
C26_Witness ==
    /\ opts.dryRun
    /\ opts.syncDelete
    /\ lastPoll.err = ""
    /\ lastPoll.id = 2
    /\ \E i \in 1..Len(lastPoll.changes) : lastPoll.changes[i].action = "delete"
    /\ \E i \in 1..Len(produced) : \E k \in 1..Len(produced[i].events) :
          produced[i].events[k].action = "update"
    /\ \E i \in 1..Len(produced) : \E k \in 1..Len(produced[i].events) :
          produced[i].events[k].action = "create"
    /\ fs.exists
    /\ \A n \in DOMAIN fs.files : fs.files[n].md5 = 2
    /\ fs.tmp = {} /\ fs.rimrafed = {}

\* C27: whenever the watcher is paused the recorded timer handle is null; a
\* step that records a new handle leaves the watcher not paused, and a step
\* that pauses the watcher leaves the handle null.
C27_PausedHasNoHandle ==
    [][/\ _paused => _pollTimeout = 0
       /\ _paused' => _pollTimeout' = 0
       /\ (_pollTimeout' # _pollTimeout /\ _pollTimeout' # 0) => ~_paused'
       /\ (~_paused /\ _paused') => _pollTimeout' = 0]_vars

\* A poll has completed while the watcher was paused: its group is the
\* last of the buffer, the watcher is still paused and no handle is recorded;
\* an earlier group was handed over and refused.
C27_Witness ==
    /\ _paused
    /\ _pollTimeout = 0
    /\ lastPoll.id # 0
    /\ lastPoll.err = ""
    /\ _lastPollTime # 0
    /\ _buffer # <<>>
    /\ _buffer[Len(_buffer)].poll = lastPoll.id
    /\ delivered # <<>>

\* C28: before and after every step, the buffer is empty whenever the
\* watcher is not paused; a step of a watcher that is not paused which
\* hands a group to the consumer finds and leaves the buffer empty.
C28_UnpausedBufferEmpty ==
    [][/\ ~_paused => _buffer = <<>>
       /\ ~_paused' => _buffer' = <<>>
       /\ (~_paused /\ delivered' # delivered) =>
             (_buffer = <<>> /\ _buffer' = <<>>)]_vars

\* A poll of a watcher that is not paused has pushed its group, after an
\* earlier group had been handed over, and has yet to commit its listing.
C28_Witness ==
    /\ ~_paused
    /\ _buffer = <<>>
    /\ Len(delivered) >= 2
    /\ \E p \in DOMAIN polls :
          /\ polls[p].pc = "saveStateAndScheduleNextPoll"
          /\ delivered[Len(delivered)].poll = p

\* C29: with poke() never called, at most one poll is in flight and at
\* most one trigger of a poll (an armed timer or a scheduled immediate) is
\* pending.
C29_OnePollOneTrigger ==
    /\ Cardinality(InFlight) <= 1
    /\ Cardinality(timers) + immediates <= 1

\* The events of the groups gs, one after the other.
RECURSIVE EventsOf(_)
EventsOf(gs) == IF gs = <<>> THEN <<>> ELSE Head(gs).events \o EventsOf(Tail(gs))

\* In the events es, two events of action `twice` for one name have an event
\* of action `between` for that name between them.
Separated(es, twice, between) ==
    \A i, j \in 1..Len(es) :
        (i < j /\ es[i].action = twice /\ es[j].action = twice /\ es[i].name = es[j].name)
            => \E k \in (i + 1)..(j - 1) :
                   es[k].action = between /\ es[k].name = es[i].name

\* C30: in the events produced for one name over all polls, two creates
\* have a delete between them and two deletes a create.
C30_NoTransitionTwice ==
    /\ Separated(EventsOf(produced), "create", "delete")
    /\ Separated(EventsOf(produced), "delete", "create")

\* C31: in the end every poll the budget allows has started and completed,
\* and every group produced has been handed to the consumer, in order: none
\* stays in the buffer.
C31_PollsGoOnAndGroupsArrive ==
    <>[](/\ nPolls = limit.polls
         /\ polls = <<>>
         /\ _buffer = <<>>
         /\ delivered = produced)

\* Everything waits for the consumer, which has taken a group and refused
\* more: the watcher is paused with a group in its buffer, no poll is in
\* flight, no timer is armed and no immediate is scheduled.
C31_Witness ==
    /\ _paused
    /\ _buffer # <<>>
    /\ delivered # <<>>
    /\ polls = <<>>
    /\ timers = {}
    /\ immediates = 0

====
